---- MODULE Spec2Model ----
(***************************************************************************)
(* Quaestor: the manifest-driven updater (src/quaestor/updater.py) and the *)
(* template renderer (src/quaestor/core/template_engine.py).               *)
(*                                                                         *)
(* Text is a sequence of one-character strings.  A file on disk is a       *)
(* string naming its content, or Absent.                                   *)
(***************************************************************************)
EXTENDS Integers, Sequences, FiniteSets, TLC

\* ------------------------------------------------------------------ bounds
\* MaxVaried: how many items of an installation (a managed file, a command
\* file, the host document, the manifest store, the backup directory) may
\* deviate from a baseline installation in an initial state.
\* MaxRuns: how many calls of the updater a behaviour of SpecTwice makes.
MaxVaried == 1
MaxRuns == 2

\* ------------------------------------------------------------------ helpers
Min(a, b) == IF a < b THEN a ELSE b

Range(s) == {s[k] : k \in DOMAIN s}

\* str.find: the 0-based index of the first occurrence of p in s, or -1.
Find(s, p) ==
    LET hits == {k \in 0..(Len(s) - Len(p)) : SubSeq(s, k + 1, k + Len(p)) = p}
    IN  IF hits = {} THEN -1 ELSE CHOOSE k \in hits : \A h \in hits : k <= h

\* s[a:b] for 0 <= a, 0 <= b.
Slice(s, a, b) == SubSeq(s, a + 1, Min(b, Len(s)))

\* ------------------------------------------------------------------ updater: names
Absent == "<absent>"

FileTypes == {"system", "user-editable", "command", "other"}

\* The types categorize_file may give a path under .quaestor/.
ManagedTypes == {"system", "user-editable", "other"}

\* quaestor.__version__
__version__ == "2.0.0"

\* The (resource, target) pairs of files_to_check / files_to_process.
files_to_process ==
    << [resource |-> "QUAESTOR_CLAUDE.md", target |-> ".quaestor/QUAESTOR_CLAUDE.md"],
       [resource |-> "CRITICAL_RULES.md", target |-> ".quaestor/CRITICAL_RULES.md"],
       [resource |-> "templates/ARCHITECTURE.template.md", target |-> ".quaestor/ARCHITECTURE.md"],
       [resource |-> "templates/MEMORY.template.md", target |-> ".quaestor/MEMORY.md"] >>

\* The shipped resource of a managed target.
ResourceOf(p) ==
    files_to_process[CHOOSE k \in DOMAIN files_to_process :
                         files_to_process[k].target = p].resource

\* A resource name with a directory part: `resource_name.startswith("templates/")`.
IsTemplateResource(resource_path) ==
    resource_path \in {"templates/ARCHITECTURE.template.md", "templates/MEMORY.template.md"}

\* quaestor.constants.COMMAND_FILES
COMMAND_FILES == << "task.md", "check.md" >>

\* f"commands/{cmd_file}"
CommandPath(cmd_file) ==
    IF cmd_file = "task.md" THEN "commands/task.md" ELSE "commands/check.md"

ManagedPaths == {files_to_process[k].target : k \in DOMAIN files_to_process}
CommandPaths == {CommandPath(COMMAND_FILES[k]) : k \in DOMAIN COMMAND_FILES}
Paths == ManagedPaths \cup CommandPaths

\* pkg_resources.read_text: the shipped text of a resource.
Shipped(resource) ==
    CASE resource = "QUAESTOR_CLAUDE.md" -> "v2.0|claude"
      [] resource = "CRITICAL_RULES.md" -> "rules"
      [] resource = "templates/ARCHITECTURE.template.md" -> "v1.5|architecture"
      [] resource = "templates/MEMORY.template.md" -> "memory"
      [] OTHER -> "command"

\* Installed text that differs from every shipped text.
OldText == "old text"

\* extract_version_from_content: the version marker of a text, "" when none.
extract_version_from_content(content) ==
    CASE content = "v2.0|claude" -> "2.0"
      [] content = "v1.5|architecture" -> "1.5"
      [] OTHER -> ""

\* ------------------------------------------------------------------ state
VARIABLES
    ftype,          \* categorize_file: the FileType of each managed path
    disk,           \* content of each managed / command path, or Absent
    claude_md,      \* the host document CLAUDE.md: [exists, text]
    manifest,       \* the FileManifest in memory: [version, files]
    manifest_disk,  \* the manifest as last saved
    backups,        \* the backup directories created so far
    fault,          \* the I/O fault, if any, of each item of the environment
    call,           \* arguments of the last update() call
    result,         \* the UpdateResult of the last update() call
    outcome,        \* "none", "returned" or "raised"
    io_log,         \* writes and saves issued by the last update() call, in order
    pre,            \* disk, host document, manifest and backups before that call
    prev,           \* the call before the last one: [made, call, result, outcome]
    calls_left,     \* calls of the updater the behaviour may still make
    updates,        \* the plan check_for_updates() last returned
    template,       \* the template text handed to the renderer
    project_data,   \* the context handed to the renderer: its items, in order
    render_call,    \* the renderer's last call: [entry, fault]
    temp_file,      \* whether a temporary file of the renderer exists
    render_outcome, \* "none", "returned" or "raised"
    rendered,       \* the text the renderer returned
    validation      \* what validate_template last returned: [made, is_valid, errors]

update_vars == << ftype, disk, claude_md, manifest, manifest_disk, backups, fault, call,
                  result, outcome, io_log, pre, prev, calls_left, updates >>

render_vars == << template, project_data, render_call, temp_file, render_outcome,
                  rendered, validation >>

vars == << update_vars, render_vars >>

\* ------------------------------------------------------------------ FileManifest
\* FileManifest.get_file_info: the entries recorded for a path.
get_file_info(m, relative_path) == {e \in m.files : e.path = relative_path}

\* FileManifest.track_file: one entry per path, replacing an older one.
track_file(m, relative_path, file_type, version) ==
    [m EXCEPT !.files = {e \in @ : e.path # relative_path}
                        \cup {[path |-> relative_path, file_type |-> file_type,
                               version |-> version, user_modified |-> FALSE]}]

\* FileManifest.is_file_modified
is_file_modified(m, relative_path) ==
    \E e \in get_file_info(m, relative_path) : e.user_modified

\* FileManifest.set_quaestor_version / get_quaestor_version
set_quaestor_version(m, v) == [m EXCEPT !.version = v]
get_quaestor_version(m) == m.version

\* categorize_file
categorize_file(relative_path) == ftype[relative_path]

\* ------------------------------------------------------------------ UpdateResult
UpdateResult ==
    [updated |-> << >>, skipped |-> << >>, added |-> << >>, failed |-> << >>,
     backed_up |-> << >>]

\* ------------------------------------------------------------------ _should_update_file
MutShouldUpdateSkipMissing(d, m, relative_path, file_type, force) ==
    IF force THEN TRUE
    ELSE IF file_type = "system" THEN TRUE
    ELSE IF file_type = "user-editable" THEN FALSE
    ELSE ~is_file_modified(m, relative_path)

MutShouldUpdateNoForce(d, m, relative_path, file_type, force) ==
    IF d[relative_path] = Absent THEN TRUE
    ELSE IF file_type = "system" THEN TRUE
    ELSE IF file_type = "user-editable" THEN FALSE
    ELSE ~is_file_modified(m, relative_path)

MutShouldUpdateUserEditable(d, m, relative_path, file_type, force) ==
    IF force THEN TRUE
    ELSE IF d[relative_path] = Absent THEN TRUE
    ELSE IF file_type = "system" THEN TRUE
    ELSE ~is_file_modified(m, relative_path)

_should_update_file(d, m, relative_path, file_type, force) ==
    IF force THEN TRUE
    ELSE IF d[relative_path] = Absent THEN TRUE
    ELSE IF file_type = "system" THEN TRUE
    ELSE IF file_type = "user-editable" THEN FALSE
    ELSE ~is_file_modified(m, relative_path)

\* ------------------------------------------------------------------ the include block
\* quaestor.constants.QUAESTOR_CONFIG_START / QUAESTOR_CONFIG_END
QUAESTOR_CONFIG_START == << "<", "S" >>
QUAESTOR_CONFIG_END == << "<", "E" >>

\* The shipped templates/CLAUDE_INCLUDE.md
CLAUDE_INCLUDE == << "h" >> \o QUAESTOR_CONFIG_START \o << "n" >> \o QUAESTOR_CONFIG_END \o << "t" >>

\* Host documents of the explored installations, by name.
HostDocNames == {"absent", "no block", "old block", "current block", "start only",
                 "end first"}

HostDoc(name) ==
    CASE name = "no block" -> [exists |-> TRUE, text |-> << "u", "v" >>]
      [] name = "old block" ->
            [exists |-> TRUE,
             text |-> << "u" >> \o QUAESTOR_CONFIG_START \o << "o" >>
                      \o QUAESTOR_CONFIG_END \o << "v" >>]
      [] name = "current block" ->
            [exists |-> TRUE,
             text |-> << "u" >> \o QUAESTOR_CONFIG_START \o << "n" >>
                      \o QUAESTOR_CONFIG_END \o << "v" >>]
      [] name = "start only" ->
            [exists |-> TRUE, text |-> << "u", "v", "w" >> \o QUAESTOR_CONFIG_START \o << "o" >>]
      [] name = "end first" ->
            [exists |-> TRUE,
             text |-> << "u" >> \o QUAESTOR_CONFIG_END \o << "v" >>
                      \o QUAESTOR_CONFIG_START \o << "o" >>]
      [] OTHER -> [exists |-> FALSE, text |-> << >>]

\* ------------------------------------------------------------------ update: per-file steps
\* The state an update() call works on:
\* [disk, claude_md, manifest, result, io_log, fault].

MutWriteInDryRun(dry_run) == TRUE

\* `if not dry_run:` guarding every write and every manifest mutation.
WritesEnabled(dry_run) == ~dry_run

\* `if target_path.exists(): updated else: added`, evaluated after the write.
ReportedAs(d_before, d_after, relative_path) ==
    IF d_after[relative_path] # Absent THEN "updated" ELSE "added"

Report(st, kind, relative_path) ==
    IF kind = "updated"
    THEN [st EXCEPT !.result.updated = Append(@, relative_path)]
    ELSE IF kind = "added"
    THEN [st EXCEPT !.result.added = Append(@, relative_path)]
    ELSE [st EXCEPT !.result.skipped = Append(@, relative_path)]

MutFailAndSkip(st, relative_path, err) ==
    [st EXCEPT !.result.failed = Append(@, << relative_path, err >>),
               !.result.skipped = Append(@, relative_path)]

Fail(st, relative_path, err) ==
    [st EXCEPT !.result.failed = Append(@, << relative_path, err >>)]

\* One iteration of the loop of _update_quaestor_files.
update_quaestor_file(st, k, force, dry_run) ==
    LET resource_name == files_to_process[k].resource
        relative_path == files_to_process[k].target
        file_type == categorize_file(relative_path)
        new_content == Shipped(resource_name)
        written == [st EXCEPT !.disk[relative_path] = new_content,
                              !.io_log = Append(@, << "write", relative_path >>)]
        version == IF extract_version_from_content(new_content) # ""
                   THEN extract_version_from_content(new_content) ELSE "1.0"
        tracked == [written EXCEPT
                      !.manifest = track_file(@, relative_path, file_type, version)]
    IN  IF st.fault[relative_path] = "read"
        THEN Fail(st, relative_path, "cannot read resource")
        ELSE IF ~_should_update_file(st.disk, st.manifest, relative_path, file_type, force)
        THEN Report(st, "skipped", relative_path)
        ELSE IF ~WritesEnabled(dry_run)
        THEN Report(st, ReportedAs(st.disk, st.disk, relative_path), relative_path)
        ELSE IF st.fault[relative_path] = "write"
        THEN Fail(st, relative_path, "cannot write target")
        ELSE IF st.fault[relative_path] = "track"
        THEN Fail(written, relative_path, "cannot record entry")
        ELSE Report(tracked, ReportedAs(st.disk, tracked.disk, relative_path),
                    relative_path)

RECURSIVE MutStopAtFailure(_, _, _, _)
MutStopAtFailure(st, k, force, dry_run) ==
    IF k > Len(files_to_process) THEN st
    ELSE LET next == update_quaestor_file(st, k, force, dry_run)
         IN  IF Len(next.result.failed) > Len(st.result.failed) THEN next
             ELSE MutStopAtFailure(next, k + 1, force, dry_run)

RECURSIVE update_quaestor_files_from(_, _, _, _)
update_quaestor_files_from(st, k, force, dry_run) ==
    IF k > Len(files_to_process) THEN st
    ELSE update_quaestor_files_from(update_quaestor_file(st, k, force, dry_run),
                                    k + 1, force, dry_run)

\* _update_quaestor_files
_update_quaestor_files(st, force, dry_run) ==
    update_quaestor_files_from(st, 1, force, dry_run)

MutCommandOverwrite(d, target) == TRUE

\* `if not target_path.exists():` of the command loops.
CommandMissing(d, target) == d[target] = Absent

\* One iteration of the loop of _update_command_files.
update_command_file(st, k, dry_run) ==
    LET target == CommandPath(COMMAND_FILES[k])
        written == [st EXCEPT !.disk[target] = Shipped(target),
                              !.io_log = Append(@, << "write", target >>)]
    IN  IF ~CommandMissing(st.disk, target) THEN st
        ELSE IF ~WritesEnabled(dry_run) THEN Report(st, "added", target)
        ELSE IF st.fault[target] = "read" THEN Fail(st, target, "cannot read resource")
        ELSE IF st.fault[target] = "write" THEN Fail(st, target, "cannot write target")
        ELSE Report(written, "added", target)

RECURSIVE update_command_files_from(_, _, _)
update_command_files_from(st, k, dry_run) ==
    IF k > Len(COMMAND_FILES) THEN st
    ELSE update_command_files_from(update_command_file(st, k, dry_run), k + 1, dry_run)

\* _update_command_files
_update_command_files(st, dry_run) == update_command_files_from(st, 1, dry_run)

\* _update_claude_md_include
_update_claude_md_include(st, dry_run) ==
    LET current_content == st.claude_md.text
        include_content == CLAUDE_INCLUDE
        config_start_idx == Find(include_content, QUAESTOR_CONFIG_START)
        config_end_idx == Find(include_content, QUAESTOR_CONFIG_END)
                          + Len(QUAESTOR_CONFIG_END)
        new_config == Slice(include_content, config_start_idx, config_end_idx)
        current_start == Find(current_content, QUAESTOR_CONFIG_START)
        current_end == Find(current_content, QUAESTOR_CONFIG_END)
                       + Len(QUAESTOR_CONFIG_END)
        current_config == Slice(current_content, current_start, current_end)
        new_content == Slice(current_content, 0, current_start) \o new_config
                       \o Slice(current_content, current_end, Len(current_content))
        reported == [st EXCEPT !.result.updated = Append(@, "CLAUDE.md (config section)")]
    IN  IF ~st.claude_md.exists THEN st
        ELSE IF st.fault["CLAUDE.md"] = "read" THEN Fail(st, "CLAUDE.md", "cannot read")
        ELSE IF current_start = -1 THEN st
        ELSE IF st.fault["CLAUDE.md"] = "template"
        THEN Fail(st, "CLAUDE.md", "cannot read resource")
        ELSE IF new_config = current_config THEN st
        ELSE IF ~WritesEnabled(dry_run) THEN reported
        ELSE IF st.fault["CLAUDE.md"] = "write" THEN Fail(st, "CLAUDE.md", "cannot write")
        ELSE [reported EXCEPT !.claude_md.text = new_content,
                              !.io_log = Append(@, << "write", "CLAUDE.md" >>)]

\* ------------------------------------------------------------------ check_for_updates
\* _has_new_version: True unless the shipped resource cannot be read.  It
\* reads every resource as read_text("quaestor", resource_path); for a name
\* with a directory part that call raises ValueError on the Python releases
\* whose importlib.resources takes file names only (fault "plan_read"),
\* while update() reads the same resource from "quaestor.templates".
_has_new_version(resource_path, target) == fault[target] \notin {"read", "plan_read"}

\* One iteration of the loop of _check_quaestor_files.
check_quaestor_file(plan, d, m, k) ==
    LET relative_path == files_to_process[k].target
        file_type == categorize_file(relative_path)
        manifest_info == get_file_info(m, relative_path)
    IN  IF d[relative_path] = Absent
        THEN [plan EXCEPT !.add = Append(@, << relative_path, file_type >>)]
        ELSE IF file_type = "system"
        THEN IF _has_new_version(files_to_process[k].resource, relative_path)
             THEN [plan EXCEPT !.update =
                       Append(@, << relative_path, file_type, "version changed" >>)]
             ELSE plan
        ELSE IF file_type = "user-editable"
        THEN IF \E e \in manifest_info : e.user_modified
             THEN [plan EXCEPT !.skip =
                       Append(@, << relative_path, file_type, "user modified" >>)]
             ELSE IF manifest_info = {}
             THEN [plan EXCEPT !.skip =
                       Append(@, << relative_path, file_type, "existing file" >>)]
             ELSE plan
        ELSE plan

RECURSIVE _check_quaestor_files(_, _, _, _)
_check_quaestor_files(plan, d, m, k) ==
    IF k > Len(files_to_process) THEN plan
    ELSE _check_quaestor_files(check_quaestor_file(plan, d, m, k), d, m, k + 1)

RECURSIVE _check_command_files(_, _, _)
_check_command_files(plan, d, k) ==
    IF k > Len(COMMAND_FILES) THEN plan
    ELSE _check_command_files(
             IF CommandMissing(d, CommandPath(COMMAND_FILES[k]))
             THEN [plan EXCEPT !.add =
                       Append(@, << CommandPath(COMMAND_FILES[k]), "command" >>)]
             ELSE plan,
             d, k + 1)

NoPlan == [made |-> FALSE, needs_update |-> FALSE, current_version |-> "",
           new_version |-> "", update |-> << >>, add |-> << >>, skip |-> << >>]

\* check_for_updates: the plan for the installation (d, m).
check_for_updates(d, m) ==
    _check_command_files(
        _check_quaestor_files(
            [made |-> TRUE,
             needs_update |-> get_quaestor_version(m) # __version__,
             current_version |-> get_quaestor_version(m),
             new_version |-> __version__,
             update |-> << >>, add |-> << >>, skip |-> << >>],
            d, m, 1),
        d, 1)

\* ------------------------------------------------------------------ update
\* _create_backup: a copy of the .quaestor files and of CLAUDE.md, or
\* nothing when the copy fails.
_create_backup(bk, d, doc) ==
    IF fault["backup"] = "copy" THEN bk
    ELSE bk \cup {[files |-> [p \in ManagedPaths |-> d[p]], claude_md |-> doc]}

\* update(): the state the passes start from: a fresh UpdateResult and, in a
\* real run, the tool version set in the manifest.
update_start(d, doc, m, flt, dry_run) ==
    [disk |-> d, claude_md |-> doc,
     manifest |-> IF WritesEnabled(dry_run) THEN set_quaestor_version(m, __version__)
                  ELSE m,
     result |-> UpdateResult, io_log |-> << >>, fault |-> flt]

MutSaveBeforeInclude(st, force, dry_run) ==
    _update_claude_md_include(
        [_update_command_files(_update_quaestor_files(st, force, dry_run), dry_run)
            EXCEPT !.io_log = IF WritesEnabled(dry_run)
                              THEN Append(@, << "save", "manifest" >>) ELSE @],
        dry_run)

\* update(): the state after the three passes, before the manifest is saved.
update_passes(st, force, dry_run) ==
    _update_claude_md_include(
        _update_command_files(_update_quaestor_files(st, force, dry_run), dry_run),
        dry_run)

\* ------------------------------------------------------------------ text and values
LowerLetters == {"a", "b", "c", "d", "e", "f", "g", "h", "i", "j", "k", "l", "m", "n", "o",
                 "p", "q", "r", "s", "t", "u", "v", "w", "x", "y", "z"}
UpperLetters == {"A", "B", "C", "D", "E", "F", "G", "H", "I", "J", "K", "L", "M", "N", "O",
                 "P", "Q", "R", "S", "T", "U", "V", "W", "X", "Y", "Z"}
Digits == {"0", "1", "2", "3", "4", "5", "6", "7", "8", "9"}

\* \s and \w of the re module, on the characters the model draws.
IsSpace(c) == c \in {" ", "\t", "\n", "\r", "\f"}
IsWord(c) == c \in LowerLetters \cup UpperLetters \cup Digits \cup {"_"}

\* str.lower, character by character.
LowerChar(c) ==
    CASE c = "T" -> "t" [] c = "R" -> "r" [] c = "U" -> "u" [] c = "E" -> "e"
      [] c = "Y" -> "y" [] c = "S" -> "s" [] c = "O" -> "o" [] c = "N" -> "n"
      [] c = "F" -> "f" [] c = "A" -> "a" [] c = "L" -> "l"
      [] OTHER -> c

Lower(s) == [k \in DOMAIN s |-> LowerChar(s[k])]

RECURSIVE Flatten(_)
Flatten(pieces) ==
    IF pieces = << >> THEN << >> ELSE Head(pieces) \o Flatten(Tail(pieces))

DigitOf(d) ==
    CASE d = 0 -> "0" [] d = 1 -> "1" [] d = 2 -> "2" [] d = 3 -> "3" [] d = 4 -> "4"
      [] d = 5 -> "5" [] d = 6 -> "6" [] d = 7 -> "7" [] d = 8 -> "8" [] OTHER -> "9"

\* str() of a non-negative int.
RECURSIVE IntStr(_)
IntStr(n) == IF n < 10 THEN << DigitOf(n) >> ELSE IntStr(n \div 10) \o << DigitOf(n % 10) >>

\* A context value: a str, a bool, an int or None.
StrVal(s) == [t |-> "str", s |-> s, b |-> FALSE, n |-> 0]
BoolVal(b) == [t |-> "bool", s |-> << >>, b |-> b, n |-> 0]
IntVal(n) == [t |-> "int", s |-> << >>, b |-> FALSE, n |-> n]
NoneVal == [t |-> "none", s |-> << >>, b |-> FALSE, n |-> 0]

\* str(value)
PyStr(v) ==
    CASE v.t = "str" -> v.s
      [] v.t = "bool" -> IF v.b THEN << "T", "r", "u", "e" >> ELSE << "F", "a", "l", "s", "e" >>
      [] v.t = "int" -> IntStr(v.n)
      [] OTHER -> << "N", "o", "n", "e" >>

\* bool(value)
PyBool(v) ==
    CASE v.t = "str" -> v.s # << >>
      [] v.t = "bool" -> v.b
      [] v.t = "int" -> v.n # 0
      [] OTHER -> FALSE

\* dict: project_data is the sequence of its (key, value) items, in order.
HasKey(data, key) == \E k \in DOMAIN data : data[k].key = key
\* data.get(key, default)
Get(data, key, default) ==
    IF HasKey(data, key) THEN data[CHOOSE k \in DOMAIN data : data[k].key = key].value
    ELSE default


\* ------------------------------------------------------------------ re
\* A pattern is a sequence of elements: a literal, \s*, \s+, a group (\w+),
\* a group ([^"]*?), [^}]+, [^}]* or [^a-zA-Z0-9_\s|"'+-]+.
Lit(s) == [k |-> "lit", s |-> s, g |-> FALSE]
WsStar == [k |-> "ws*", s |-> << >>, g |-> FALSE]
WsPlus == [k |-> "ws+", s |-> << >>, g |-> FALSE]
WordGroup == [k |-> "word+", s |-> << >>, g |-> TRUE]
NotQuoteGroup == [k |-> "nq*", s |-> << >>, g |-> TRUE]
NotBracePlus == [k |-> "nb+", s |-> << >>, g |-> FALSE]
NotBraceStar == [k |-> "nb*", s |-> << >>, g |-> FALSE]
NotNamePlus == [k |-> "nn+", s |-> << >>, g |-> FALSE]

InClass(kind, c) ==
    CASE kind \in {"ws*", "ws+"} -> IsSpace(c)
      [] kind = "word+" -> IsWord(c)
      [] kind = "nq*" -> c # "\""
      [] kind = "nn+" -> ~IsWord(c) /\ ~IsSpace(c) /\ c \notin {"|", "\"", "'", "+", "-"}
      [] OTHER -> c # "}"

\* How many characters of s after offset pos lie in the class of kind.
RunLen(kind, s, pos) ==
    CHOOSE n \in 0..(Len(s) - pos) :
        /\ \A i \in 1..n : InClass(kind, s[pos + i])
        /\ (pos + n < Len(s) => ~InClass(kind, s[pos + n + 1]))

\* The offsets at which element e may end when it starts at offset pos.
ElementEnds(e, s, pos) ==
    IF e.k = "lit"
    THEN IF pos + Len(e.s) <= Len(s) /\ SubSeq(s, pos + 1, pos + Len(e.s)) = e.s
         THEN {pos + Len(e.s)} ELSE {}
    ELSE (IF e.k \in {"ws*", "nq*", "nb*"} THEN pos ELSE pos + 1)..(pos + RunLen(e.k, s, pos))

\* The matches of pat[j..] at offset pos: [end, groups].
RECURSIVE MatchFrom(_, _, _, _, _)
MatchFrom(pat, j, s, pos, groups) ==
    IF j > Len(pat) THEN {[end |-> pos, groups |-> groups]}
    ELSE UNION { MatchFrom(pat, j + 1, s, q,
                           IF pat[j].g THEN Append(groups, Slice(s, pos, q)) ELSE groups) :
                 q \in ElementEnds(pat[j], s, pos) }

\* The non-overlapping matches of pat in s from offset pos on, leftmost first:
\* [start, end, groups].  at[p + 1] holds the matches that start at offset p.
RECURSIVE MatchesFrom(_, _)
MatchesFrom(at, pos) ==
    LET starts == {p \in pos..(Len(at) - 1) : at[p + 1] # {}}
    IN  IF starts = {} THEN << >>
        ELSE LET start == CHOOSE p \in starts : \A q \in starts : p <= q
                 m == CHOOSE x \in at[start + 1] : TRUE
             IN  << [start |-> start, end |-> m.end, groups |-> m.groups] >>
                 \o MatchesFrom(at, m.end)

FindAll(pat, s, pos) ==
    MatchesFrom([p \in 1..Len(s) |-> MatchFrom(pat, 1, s, p - 1, << >>)], pos)

\* Where the elements pat[j..] end in the match re finds at offset pos, each
\* element taking as much as the rest of the pattern allows, earlier ones first.
RECURSIVE GreedyEnds(_, _, _, _)
GreedyEnds(pat, j, s, pos) ==
    IF j > Len(pat) THEN << >>
    ELSE LET ok == {q \in ElementEnds(pat[j], s, pos) :
                      MatchFrom(pat, j + 1, s, q, << >>) # {}}
             q == CHOOSE x \in ok : \A y \in ok : y <= x
         IN  << q >> \o GreedyEnds(pat, j + 1, s, q)

\* re.findall for a pattern of greedy elements: the non-overlapping matches
\* of pat in s from offset pos on, leftmost first: [start, ends].
RECURSIVE FindAllGreedy(_, _, _)
FindAllGreedy(pat, s, pos) ==
    LET starts == {p \in pos..(Len(s) - 1) : MatchFrom(pat, 1, s, p, << >>) # {}}
    IN  IF starts = {} THEN << >>
        ELSE LET start == CHOOSE p \in starts : \A q \in starts : p <= q
                 ends == GreedyEnds(pat, 1, s, start)
             IN  << [start |-> start, ends |-> ends] >>
                 \o FindAllGreedy(pat, s, ends[Len(pat)])

\* str.count: the non-overlapping occurrences of sub in s.
StrCount(s, sub) == Len(FindAll(<< Lit(sub) >>, s, 0))

Splice(s, ms, repls) ==
    LET pieces == [i \in 1..Len(ms) |->
                     Slice(s, IF i = 1 THEN 0 ELSE ms[i - 1].end, ms[i].start)
                     \o repls[i]]
    IN  Flatten(pieces) \o Slice(s, IF ms = << >> THEN 0 ELSE ms[Len(ms)].end, Len(s))

\* The characters \a \b \f \n \r \t \v stand for in a replacement string.
EscapeChar(c) ==
    CASE c = "n" -> "\n" [] c = "t" -> "\t" [] c = "r" -> "\r" [] c = "f" -> "\f"
      [] c = "a" -> "<BEL>" [] c = "b" -> "<BS>" [] OTHER -> "<VT>"

\* The replacement string repl as re.sub expands it for a pattern without
\* groups: [ok, text]; ok is FALSE where re raises (a letter that is no
\* escape, a group reference, a trailing backslash).  Inputs hold no \0 and
\* no \g.
RECURSIVE ExpandFrom(_, _, _)
ExpandFrom(repl, i, out) ==
    IF i > Len(repl) THEN [ok |-> TRUE, text |-> out]
    ELSE IF repl[i] # "\\" THEN ExpandFrom(repl, i + 1, Append(out, repl[i]))
    ELSE IF i = Len(repl) THEN [ok |-> FALSE, text |-> << >>]
    ELSE IF repl[i + 1] = "\\" THEN ExpandFrom(repl, i + 2, Append(out, "\\"))
    ELSE IF repl[i + 1] \in {"a", "b", "f", "n", "r", "t", "v"}
    THEN ExpandFrom(repl, i + 2, Append(out, EscapeChar(repl[i + 1])))
    ELSE IF repl[i + 1] \in LowerLetters \cup UpperLetters \cup Digits
    THEN [ok |-> FALSE, text |-> << >>]
    ELSE ExpandFrom(repl, i + 2, out \o << "\\", repl[i + 1] >>)

ExpandRepl(repl) == ExpandFrom(repl, 1, << >>)

\* re.sub(pat, repl, s) with repl a string: [ok, text].
ReSubStr(pat, repl, s) ==
    LET e == ExpandRepl(repl)
        ms == FindAll(pat, s, 0)
    IN  IF e.ok THEN [ok |-> TRUE, text |-> Splice(s, ms, [i \in DOMAIN ms |-> e.text])]
        ELSE [ok |-> FALSE, text |-> s]


\* ------------------------------------------------------------------ template_engine
\* rf"\{{\{{\s*{re.escape(key)}\s*\}}\}}"
key_pattern(key) ==
    << Lit(<< "{", "{" >>),
       WsStar,
       Lit(key),
       WsStar,
       Lit(<< "}", "}" >>) >>

\* r'\{\{\s*"([^"]*?)"\s+if\s+(\w+)\s+else\s+"([^"]*?)"\s*\}\}'
conditional_pattern ==
    << Lit(<< "{", "{" >>),
       WsStar,
       Lit(<< "\"" >>),
       NotQuoteGroup,
       Lit(<< "\"" >>),
       WsPlus,
       Lit(<< "i", "f" >>),
       WsPlus,
       WordGroup,
       WsPlus,
       Lit(<< "e", "l", "s", "e" >>),
       WsPlus,
       Lit(<< "\"" >>),
       NotQuoteGroup,
       Lit(<< "\"" >>),
       WsStar,
       Lit(<< "}", "}" >>) >>

\* r'\{\{\s*(\w+)\s+if\s+(\w+)\s+else\s+"([^"]*?)"\s*\}\}'
value_conditional_pattern ==
    << Lit(<< "{", "{" >>),
       WsStar,
       WordGroup,
       WsPlus,
       Lit(<< "i", "f" >>),
       WsPlus,
       WordGroup,
       WsPlus,
       Lit(<< "e", "l", "s", "e" >>),
       WsPlus,
       Lit(<< "\"" >>),
       NotQuoteGroup,
       Lit(<< "\"" >>),
       WsStar,
       Lit(<< "}", "}" >>) >>

\* r'\{\{\s*">=" \+ coverage_threshold\|string \+ "%"\s+if\s+coverage_threshold\s+else\s+"optional"\s*\}\}'
threshold_or_optional_pattern ==
    << Lit(<< "{", "{" >>),
       WsStar,
       Lit(<< "\"", ">", "=", "\"", " ", "+", " ", "c", "o", "v", "e", "r", "a", "g", "e", "_", "t", "h", "r", "e", "s", "h", "o", "l", "d", "|", "s", "t", "r", "i", "n", "g", " ", "+", " ", "\"", "%", "\"" >>),
       WsPlus,
       Lit(<< "i", "f" >>),
       WsPlus,
       Lit(<< "c", "o", "v", "e", "r", "a", "g", "e", "_", "t", "h", "r", "e", "s", "h", "o", "l", "d" >>),
       WsPlus,
       Lit(<< "e", "l", "s", "e" >>),
       WsPlus,
       Lit(<< "\"", "o", "p", "t", "i", "o", "n", "a", "l", "\"" >>),
       WsStar,
       Lit(<< "}", "}" >>) >>

\* r'\{\{\s*coverage_threshold\|string \+ "%"\s+if\s+coverage_threshold\s+else\s+"80%"\s*\}\}'
threshold_or_default_pattern ==
    << Lit(<< "{", "{" >>),
       WsStar,
       Lit(<< "c", "o", "v", "e", "r", "a", "g", "e", "_", "t", "h", "r", "e", "s", "h", "o", "l", "d", "|", "s", "t", "r", "i", "n", "g", " ", "+", " ", "\"", "%", "\"" >>),
       WsPlus,
       Lit(<< "i", "f" >>),
       WsPlus,
       Lit(<< "c", "o", "v", "e", "r", "a", "g", "e", "_", "t", "h", "r", "e", "s", "h", "o", "l", "d" >>),
       WsPlus,
       Lit(<< "e", "l", "s", "e" >>),
       WsPlus,
       Lit(<< "\"", "8", "0", "%", "\"" >>),
       WsStar,
       Lit(<< "}", "}" >>) >>

\* r'\{\{\s*"true"\s+if\s+project_type\s*==\s*"web"\s+else\s+"false"\s*\}\}'
is_web_pattern ==
    << Lit(<< "{", "{" >>),
       WsStar,
       Lit(<< "\"", "t", "r", "u", "e", "\"" >>),
       WsPlus,
       Lit(<< "i", "f" >>),
       WsPlus,
       Lit(<< "p", "r", "o", "j", "e", "c", "t", "_", "t", "y", "p", "e" >>),
       WsStar,
       Lit(<< "=", "=" >>),
       WsStar,
       Lit(<< "\"", "w", "e", "b", "\"" >>),
       WsPlus,
       Lit(<< "e", "l", "s", "e" >>),
       WsPlus,
       Lit(<< "\"", "f", "a", "l", "s", "e", "\"" >>),
       WsStar,
       Lit(<< "}", "}" >>) >>

\* r'\{\{\s*performance_target_ms\s+if\s+performance_target_ms\s+else\s+"200"\s*\}\}'
performance_target_pattern ==
    << Lit(<< "{", "{" >>),
       WsStar,
       Lit(<< "p", "e", "r", "f", "o", "r", "m", "a", "n", "c", "e", "_", "t", "a", "r", "g", "e", "t", "_", "m", "s" >>),
       WsPlus,
       Lit(<< "i", "f" >>),
       WsPlus,
       Lit(<< "p", "e", "r", "f", "o", "r", "m", "a", "n", "c", "e", "_", "t", "a", "r", "g", "e", "t", "_", "m", "s" >>),
       WsPlus,
       Lit(<< "e", "l", "s", "e" >>),
       WsPlus,
       Lit(<< "\"", "2", "0", "0", "\"" >>),
       WsStar,
       Lit(<< "}", "}" >>) >>

\* r"\{\{\s*[^}]+\s*\}\}"
cleanup_pattern ==
    << Lit(<< "{", "{" >>),
       WsStar,
       NotBracePlus,
       WsStar,
       Lit(<< "}", "}" >>) >>


KeyCoverageThreshold == << "c", "o", "v", "e", "r", "a", "g", "e", "_", "t", "h", "r", "e", "s", "h", "o", "l", "d" >>
KeyProjectType == << "p", "r", "o", "j", "e", "c", "t", "_", "t", "y", "p", "e" >>
KeyPerformanceTargetMs == << "p", "e", "r", "f", "o", "r", "m", "a", "n", "c", "e", "_", "t", "a", "r", "g", "e", "t", "_", "m", "s" >>

\* `condition_value = data.get(condition_var, False)`, a str judged by its
\* lowercase form, anything else by bool().
ConditionHolds(data, condition_var) ==
    LET condition_value == Get(data, condition_var, BoolVal(FALSE))
    IN  IF condition_value.t = "str"
        THEN Lower(condition_value.s) \in {<< "t", "r", "u", "e" >>, << "1" >>, << "y", "e", "s" >>, << "o", "n" >>}
        ELSE PyBool(condition_value)

\* replace_conditional
replace_conditional(data, match) ==
    IF ConditionHolds(data, match.groups[2]) THEN match.groups[1] ELSE match.groups[3]

\* replace_value_conditional
replace_value_conditional(data, match) ==
    IF ConditionHolds(data, match.groups[2])
    THEN PyStr(Get(data, match.groups[1], StrVal(<< >>)))
    ELSE match.groups[3]

\* A chain of re.sub calls with string replacements, stopping where one raises.
RECURSIVE SubAll(_, _)
SubAll(subs, r) ==
    IF subs = << >> \/ ~r.ok THEN r
    ELSE SubAll(Tail(subs), ReSubStr(Head(subs).pat, Head(subs).repl, r.text))

\* _process_specific_patterns
_process_specific_patterns(content, data) ==
    LET coverage_threshold == Get(data, KeyCoverageThreshold, NoneVal)
        project_type == Get(data, KeyProjectType, StrVal(<< "u", "n", "k", "n", "o", "w", "n" >>))
        is_web == IF project_type = StrVal(<< "w", "e", "b" >>) THEN << "t", "r", "u", "e" >> ELSE << "f", "a", "l", "s", "e" >>
        performance_target == Get(data, KeyPerformanceTargetMs, IntVal(200))
    IN  SubAll(
            (IF PyBool(coverage_threshold)
             THEN << [pat |-> threshold_or_optional_pattern,
                      repl |-> << ">", "=" >> \o PyStr(coverage_threshold) \o << "%" >>],
                     [pat |-> threshold_or_default_pattern,
                      repl |-> PyStr(coverage_threshold) \o << "%" >>] >>
             ELSE << [pat |-> threshold_or_optional_pattern, repl |-> << "o", "p", "t", "i", "o", "n", "a", "l" >>],
                     [pat |-> threshold_or_default_pattern, repl |-> << "8", "0", "%" >>] >>)
            \o << [pat |-> is_web_pattern, repl |-> is_web],
                  [pat |-> performance_target_pattern, repl |-> PyStr(performance_target)] >>,
            [ok |-> TRUE, text |-> content])

\* _process_conditionals
_process_conditionals(content, data) ==
    LET ms == FindAll(conditional_pattern, content, 0)
        simple == Splice(content, ms,
                         [i \in DOMAIN ms |-> replace_conditional(data, ms[i])])
        vs == FindAll(value_conditional_pattern, simple, 0)
        valued == Splice(simple, vs,
                         [i \in DOMAIN vs |-> replace_value_conditional(data, vs[i])])
    IN  _process_specific_patterns(valued, data)

\* The text a value is substituted as in the first loop of process_template.
SubstitutedText(value) ==
    IF value.t = "none" THEN << >>
    ELSE IF value.t = "bool" THEN (IF value.b THEN << "t", "r", "u", "e" >> ELSE << "f", "a", "l", "s", "e" >>)
    ELSE PyStr(value)

\* The first loop of process_template: one re.sub per item of project_data.
RECURSIVE substitute_variables(_, _, _)
substitute_variables(r, data, k) ==
    IF k > Len(data) \/ ~r.ok THEN r
    ELSE substitute_variables(
             ReSubStr(key_pattern(data[k].key),
                      SubstitutedText(data[k].value), r.text),
             data, k + 1)

\* `re.sub(r"\{\{\s*[^}]+\s*\}\}", "", content)`
cleanup(content) ==
    LET ms == FindAll(cleanup_pattern, content, 0)
    IN  Splice(content, ms, [i \in DOMAIN ms |-> << >>])

\* process_template on the text of the template file: [ok, text]; ok is
\* FALSE when a re.sub raises.
process_template(content, data) ==
    LET substituted == substitute_variables([ok |-> TRUE, text |-> content], data, 1)
        conditionals == _process_conditionals(substituted.text, data)
    IN  IF ~substituted.ok THEN substituted
        ELSE IF ~conditionals.ok THEN conditionals
        ELSE [ok |-> TRUE, text |-> cleanup(conditionals.text)]

\* r'\{\{\s*([^}]*[^a-zA-Z0-9_\s|"\'+-]+[^}]*)\s*\}\}'
invalid_variable_pattern ==
    << Lit(<< "{", "{" >>),
       WsStar,
       NotBraceStar,
       NotNamePlus,
       NotBraceStar,
       WsStar,
       Lit(<< "}", "}" >>) >>

\* The group of a match of invalid_variable_pattern: its elements 3 to 5.
InvalidVar(content, m) == Slice(content, m.ends[2], m.ends[5])

\* `any(keyword in var for keyword in ["if", "else", "string", "+", '"'])`
HasKeyword(var) ==
    \E keyword \in {<< "i", "f" >>, << "e", "l", "s", "e" >>,
                    << "s", "t", "r", "i", "n", "g" >>, << "+" >>, << "\"" >>} :
        Find(var, keyword) # -1

UnmatchedBraces(open_braces, close_braces) ==
    [kind |-> "unmatched braces", open |-> open_braces, close |-> close_braces,
     var |-> << >>]

InvalidName(var) == [kind |-> "invalid variable name", open |-> 0, close |-> 0, var |-> var]

\* The loop over invalid_vars of validate_template.
RECURSIVE invalid_name_errors(_, _, _)
invalid_name_errors(content, ms, k) ==
    IF k > Len(ms) THEN << >>
    ELSE (IF HasKeyword(InvalidVar(content, ms[k])) THEN << >>
          ELSE << InvalidName(InvalidVar(content, ms[k])) >>)
         \o invalid_name_errors(content, ms, k + 1)

MutValidateStopAtBraces(flt, content) ==
    LET open_braces == StrCount(content, << "{", "{" >>)
        close_braces == StrCount(content, << "}", "}" >>)
        names == invalid_name_errors(
                     content, FindAllGreedy(invalid_variable_pattern, content, 0), 1)
    IN  IF flt # "none" THEN [is_valid |-> FALSE, errors |-> << >>]
        ELSE IF open_braces # close_braces
        THEN [is_valid |-> FALSE,
              errors |-> << UnmatchedBraces(open_braces, close_braces) >>]
        ELSE [is_valid |-> Len(names) = 0, errors |-> names]

\* validate_template on a template file that is missing ("missing"), cannot
\* be read ("read") or holds content: [is_valid, errors].
validate_template(flt, content) ==
    LET open_braces == StrCount(content, << "{", "{" >>)
        close_braces == StrCount(content, << "}", "}" >>)
        errors == (IF open_braces # close_braces
                   THEN << UnmatchedBraces(open_braces, close_braces) >> ELSE << >>)
                  \o invalid_name_errors(
                         content, FindAllGreedy(invalid_variable_pattern, content, 0), 1)
    IN  IF flt = "missing"
        THEN [is_valid |-> FALSE,
              errors |-> << [kind |-> "does not exist", open |-> 0, close |-> 0,
                             var |-> << >>] >>]
        ELSE IF flt = "read"
        THEN [is_valid |-> FALSE,
              errors |-> << [kind |-> "cannot read", open |-> 0, close |-> 0,
                             var |-> << >>] >>]
        ELSE [is_valid |-> Len(errors) = 0, errors |-> errors]

\* ------------------------------------------------------------------ initial states
Items == Paths \cup {"CLAUDE.md", "manifest", "backup"}

\* What may be true of one item: its type, content, manifest status and fault.
ItemStates(i) ==
    IF i \in ManagedPaths
    THEN [type : ManagedTypes, content : {Absent, OldText},
          tracking : {"untracked", "tracked", "modified"},
          fault : {"none", "read", "write", "track"}
                  \cup (IF IsTemplateResource(ResourceOf(i)) THEN {"plan_read"} ELSE {})]
    ELSE IF i \in CommandPaths
    THEN [type : {"command"}, content : {Absent, OldText}, tracking : {"untracked"},
          fault : {"none", "read", "write"}]
    ELSE IF i = "CLAUDE.md"
    THEN [type : {"other"}, content : HostDocNames, tracking : {"untracked"},
          fault : {"none", "read", "template", "write"}]
    ELSE IF i = "manifest"
    THEN [type : {"other"}, content : {"", "1.0.0"}, tracking : {"untracked"},
          fault : {"none", "save"}]
    ELSE [type : {"other"}, content : {Absent}, tracking : {"untracked"},
          fault : {"none", "copy"}]

AllItemStates == UNION {ItemStates(i) : i \in Items}

\* The type the shipped classification table gives a managed path.
BaseType(i) ==
    IF i \in {".quaestor/QUAESTOR_CLAUDE.md", ".quaestor/CRITICAL_RULES.md"}
    THEN "system" ELSE "user-editable"

\* An older release, installed and tracked.
Installed(i) ==
    IF i \in ManagedPaths
    THEN [type |-> BaseType(i), content |-> OldText, tracking |-> "tracked",
          fault |-> "none"]
    ELSE IF i \in CommandPaths
    THEN [type |-> "command", content |-> OldText, tracking |-> "untracked",
          fault |-> "none"]
    ELSE IF i = "CLAUDE.md"
    THEN [type |-> "other", content |-> "old block", tracking |-> "untracked",
          fault |-> "none"]
    ELSE IF i = "manifest"
    THEN [type |-> "other", content |-> "1.0.0", tracking |-> "untracked",
          fault |-> "none"]
    ELSE [type |-> "other", content |-> Absent, tracking |-> "untracked",
          fault |-> "none"]

ManifestOf(items) ==
    [version |-> items["manifest"].content,
     files |-> {[path |-> p, file_type |-> items[p].type, version |-> "1.0",
                 user_modified |-> items[p].tracking = "modified"] :
                p \in {q \in ManagedPaths : items[q].tracking # "untracked"}}]

NoCall == [backup |-> FALSE, force |-> FALSE, dry_run |-> FALSE]

NoRenderCall == [entry |-> "none", fault |-> "none"]

NoValidation == [made |-> FALSE, is_valid |-> FALSE, errors |-> << >>]

\* The renderer before any call, with the template and context it will get.
RenderInit(text, data) ==
    /\ template = text
    /\ project_data = data
    /\ render_call = NoRenderCall
    /\ temp_file = FALSE
    /\ render_outcome = "none"
    /\ rendered = << >>
    /\ validation = NoValidation

InitFrom(items, budget) ==
    /\ ftype = [p \in ManagedPaths |-> items[p].type]
    /\ disk = [p \in Paths |-> items[p].content]
    /\ claude_md = HostDoc(items["CLAUDE.md"].content)
    /\ manifest = ManifestOf(items)
    /\ manifest_disk = ManifestOf(items)
    /\ backups = {}
    /\ fault = [i \in Items |-> items[i].fault]
    /\ call = NoCall
    /\ result = UpdateResult
    /\ outcome = "none"
    /\ io_log = << >>
    /\ pre = [disk |-> disk, claude_md |-> claude_md, manifest |-> manifest,
              manifest_disk |-> manifest_disk, backups |-> backups]
    /\ prev = [made |-> FALSE, call |-> NoCall, result |-> UpdateResult,
               outcome |-> "none"]
    /\ calls_left = budget
    /\ updates = NoPlan

Baselines == {[i \in Items |-> Installed(i)]}

\* A baseline installation in which at most MaxVaried items are in any state.
InitWith(budget) ==
    \E base \in Baselines :
        \E V \in {W \in SUBSET Items : Cardinality(W) <= MaxVaried} :
            \E c \in [V -> AllItemStates] :
                /\ \A i \in V : c[i] \in ItemStates(i)
                /\ InitFrom([i \in Items |-> IF i \in V THEN c[i] ELSE base[i]], budget)
                /\ RenderInit(<< >>, << >>)

Init == InitWith(1)

InitTwice == InitWith(MaxRuns)

\* ------------------------------------------------------------------ renderer: initial states
\* MaxTemplateLen: the longest template drawn over TemplateChars.
MaxTemplateLen == 5

TemplateChars == {"{", "}", "k"}

\* Templates of the shipped kind: one expression of each form the renderer knows.
\* `Coverage: {{ ">=" + coverage_threshold|string + "%" if coverage_threshold else "optional" }}`
CoverageTemplate ==
    << "C", "o", "v", "e", "r", "a", "g", "e", ":", " ", "{", "{", " ", "\"", ">", "=", "\"", " ", "+", " ", "c", "o", "v", "e", "r", "a", "g", "e", "_", "t", "h", "r", "e", "s", "h", "o", "l", "d", "|", "s", "t", "r", "i", "n", "g", " ", "+", " ", "\"", "%", "\"", " ", "i", "f", " ", "c", "o", "v", "e", "r", "a", "g", "e", "_", "t", "h", "r", "e", "s", "h", "o", "l", "d", " ", "e", "l", "s", "e", " ", "\"", "o", "p", "t", "i", "o", "n", "a", "l", "\"", " ", "}", "}" >>

\* `{{ coverage_threshold|string + "%" if coverage_threshold else "80%" }}`
ThresholdDefaultTemplate ==
    << "{", "{", " ", "c", "o", "v", "e", "r", "a", "g", "e", "_", "t", "h", "r", "e", "s", "h", "o", "l", "d", "|", "s", "t", "r", "i", "n", "g", " ", "+", " ", "\"", "%", "\"", " ", "i", "f", " ", "c", "o", "v", "e", "r", "a", "g", "e", "_", "t", "h", "r", "e", "s", "h", "o", "l", "d", " ", "e", "l", "s", "e", " ", "\"", "8", "0", "%", "\"", " ", "}", "}" >>

\* `{{ performance_target_ms if performance_target_ms else "200" }}`
PerformanceTargetTemplate ==
    << "{", "{", " ", "p", "e", "r", "f", "o", "r", "m", "a", "n", "c", "e", "_", "t", "a", "r", "g", "e", "t", "_", "m", "s", " ", "i", "f", " ", "p", "e", "r", "f", "o", "r", "m", "a", "n", "c", "e", "_", "t", "a", "r", "g", "e", "t", "_", "m", "s", " ", "e", "l", "s", "e", " ", "\"", "2", "0", "0", "\"", " ", "}", "}" >>

\* `{{ "true" if project_type == "web" else "false" }}`
IsWebTemplate ==
    << "{", "{", " ", "\"", "t", "r", "u", "e", "\"", " ", "i", "f", " ", "p", "r", "o", "j", "e", "c", "t", "_", "t", "y", "p", "e", " ", "=", "=", " ", "\"", "w", "e", "b", "\"", " ", "e", "l", "s", "e", " ", "\"", "f", "a", "l", "s", "e", "\"", " ", "}", "}" >>

\* `{{ "a" if k else "b" }}`
LiteralTernaryTemplate ==
    << "{", "{", " ", "\"", "a", "\"", " ", "i", "f", " ", "k", " ", "e", "l", "s", "e", " ", "\"", "b", "\"", " ", "}", "}" >>

\* `{{ k if k else "d" }}`
ValueTernaryTemplate ==
    << "{", "{", " ", "k", " ", "i", "f", " ", "k", " ", "e", "l", "s", "e", " ", "\"", "d", "\"", " ", "}", "}" >>

\* `{{ k }} says {{ hi`
UnbalancedTemplate ==
    << "{", "{", " ", "k", " ", "}", "}", " ", "s", "a", "y", "s", " ", "{", "{", " ", "h", "i" >>

ScenarioTemplates ==
    {CoverageTemplate, ThresholdDefaultTemplate, PerformanceTargetTemplate,
     IsWebTemplate, LiteralTernaryTemplate, ValueTernaryTemplate,
     UnbalancedTemplate}

\* Every text over TemplateChars up to the bound.
ShortTemplates == UNION {[1..n -> TemplateChars] : n \in 0..MaxTemplateLen}

Templates == ShortTemplates \cup ScenarioTemplates

KeyK == << "k" >>

ContextKeys == {KeyK, KeyCoverageThreshold, KeyProjectType, KeyPerformanceTargetMs}

ContextValues ==
    { NoneVal, BoolVal(TRUE), BoolVal(FALSE), IntVal(0), IntVal(85), IntVal(150),
      StrVal(<< >>), StrVal(<< "1" >>), StrVal(<< "t", "r", "u", "e" >>), StrVal(<< "8", "5" >>), StrVal(<< "1", "5", "0" >>),
      StrVal(<< "w", "e", "b" >>), StrVal(<< "{", "{", "}", "}" >>), StrVal(<< "{", "{" >>), StrVal(<< "\\", "d" >>), StrVal(<< "\\", "n" >>),
      StrVal(<< "\\", "\\" >>), StrVal(<< "\\" >>) }

\* The empty context and every context of one item whose key is in keys.
Contexts(keys) ==
    {<< >>} \cup {<< [key |-> key, value |-> value] >> :
                    key \in keys, value \in ContextValues}

\* The short texts mention no key but k; the scenario texts meet every key.
InitRender ==
    /\ InitFrom([i \in Items |-> Installed(i)], 0)
    /\ \/ \E text \in ShortTemplates, data \in Contexts({KeyK}) : RenderInit(text, data)
       \/ \E text \in ScenarioTemplates, data \in Contexts(ContextKeys) :
              RenderInit(text, data)

\* ------------------------------------------------------------------ validator: initial states
ValidatorChars == TemplateChars \cup {"!", "+"}

\* `{{ name }} says {{ hi`
UnmatchedExampleTemplate ==
    << "{", "{", " ", "n", "a", "m", "e", " ", "}", "}", " ", "s", "a", "y", "s", " ",
       "{", "{", " ", "h", "i" >>

\* `{{ a.b }}` and `{{ "x" if a.b else "y" }}`
DottedNameTemplate == << "{", "{", " ", "a", ".", "b", " ", "}", "}" >>
DottedConditionTemplate ==
    << "{", "{", " ", "\"", "x", "\"", " ", "i", "f", " ", "a", ".", "b", " ", "e", "l",
       "s", "e", " ", "\"", "y", "\"", " ", "}", "}" >>

\* `{{ a.b }} and {{ c`
DottedUnmatchedTemplate ==
    << "{", "{", " ", "a", ".", "b", " ", "}", "}", " ", "a", "n", "d", " ", "{", "{",
       " ", "c" >>

ValidatorTemplates ==
    UNION {[1..n -> ValidatorChars] : n \in 0..MaxTemplateLen}
    \cup ScenarioTemplates
    \cup {UnmatchedExampleTemplate, DottedNameTemplate, DottedConditionTemplate,
          DottedUnmatchedTemplate}

InitValidate ==
    /\ InitFrom([i \in Items |-> Installed(i)], 0)
    /\ \E text \in ValidatorTemplates : RenderInit(text, << >>)

\* ------------------------------------------------------------------ actions
\* check_for_updates(show_diff)
CheckForUpdates ==
    /\ calls_left > 0
    /\ outcome = "none"
    /\ ~updates.made
    /\ updates' = check_for_updates(disk, manifest)
    /\ calls_left' = calls_left - 1
    /\ UNCHANGED << ftype, disk, claude_md, manifest, manifest_disk, backups, fault,
                    call, result, outcome, io_log, pre, prev >>
    /\ UNCHANGED render_vars

\* update(backup, force, dry_run)
Update(backup, force, dry_run) ==
    /\ calls_left > 0
    /\ \E end \in {update_passes(update_start(disk, claude_md, manifest, fault, dry_run),
                                 force, dry_run)} :
          LET save_fails == WritesEnabled(dry_run) /\ fault["manifest"] = "save"
          IN  /\ call' = [backup |-> backup, force |-> force, dry_run |-> dry_run]
              /\ pre' = [disk |-> disk, claude_md |-> claude_md, manifest |-> manifest,
                         manifest_disk |-> manifest_disk, backups |-> backups]
              /\ prev' = [made |-> outcome # "none", call |-> call, result |-> result,
                          outcome |-> outcome]
              /\ backups' = IF backup /\ WritesEnabled(dry_run)
                            THEN _create_backup(backups, disk, claude_md)
                            ELSE backups
              /\ disk' = end.disk
              /\ claude_md' = end.claude_md
              /\ manifest' = end.manifest
              /\ result' = end.result
              /\ manifest_disk' = IF WritesEnabled(dry_run) /\ ~save_fails
                                  THEN end.manifest ELSE manifest_disk
              /\ io_log' = IF WritesEnabled(dry_run) /\ ~save_fails
                           THEN Append(end.io_log, << "save", "manifest" >>)
                           ELSE end.io_log
              /\ outcome' = IF save_fails THEN "raised" ELSE "returned"
    /\ calls_left' = calls_left - 1
    /\ updates' = NoPlan
    /\ UNCHANGED << ftype, fault >>
    /\ UNCHANGED render_vars

\* process_template(template_path, project_data); the read of the template
\* file may fail.
ProcessTemplate(flt) ==
    /\ render_outcome = "none"
    /\ render_call' = [entry |-> "process_template", fault |-> flt]
    /\ \E r \in {process_template(template, project_data)} :
           /\ render_outcome' = IF flt = "none" /\ r.ok THEN "returned" ELSE "raised"
           /\ rendered' = IF flt = "none" /\ r.ok THEN r.text ELSE << >>
    /\ UNCHANGED << template, project_data, temp_file, validation >>
    /\ UNCHANGED update_vars

\* render_template_string(template_str, project_data): the temporary file is
\* created when it is opened, written inside the `with`, and unlinked in the
\* `finally` that guards process_template alone.
RenderTemplateString(flt) ==
    /\ render_outcome = "none"
    /\ render_call' = [entry |-> "render_template_string", fault |-> flt]
    /\ \E r \in {process_template(template, project_data)} :
           /\ render_outcome' = IF flt = "none" /\ r.ok THEN "returned" ELSE "raised"
           /\ rendered' = IF flt = "none" /\ r.ok THEN r.text ELSE << >>
    /\ temp_file' = (flt = "write")
    /\ UNCHANGED << template, project_data, validation >>
    /\ UNCHANGED update_vars

\* validate_template(template_path)
ValidateTemplate(flt) ==
    /\ render_outcome = "none"
    /\ render_call' = [entry |-> "validate_template", fault |-> flt]
    /\ \E r \in {validate_template(flt, template)} :
           validation' = [made |-> TRUE, is_valid |-> r.is_valid, errors |-> r.errors]
    /\ render_outcome' = "returned"
    /\ UNCHANGED << template, project_data, temp_file, rendered >>
    /\ UNCHANGED update_vars

NextRender ==
    \/ \E flt \in {"none", "read"} : ProcessTemplate(flt)
    \/ \E flt \in {"none", "write", "read"} : RenderTemplateString(flt)

Next ==
    \/ CheckForUpdates
    \/ \E backup \in BOOLEAN, force \in BOOLEAN, dry_run \in BOOLEAN :
           Update(backup, force, dry_run)

Spec == Init /\ [][Next]_vars

SpecTwice == InitTwice /\ [][Next]_vars

SpecRender == InitRender /\ [][NextRender]_vars

NextValidate == \E flt \in {"none", "missing", "read"} : ValidateTemplate(flt)

SpecValidate == InitValidate /\ [][NextValidate]_vars

\* ------------------------------------------------------------------ vocabulary of the claims
Finished == outcome # "none"

Count(seq, x) == Cardinality({k \in DOMAIN seq : seq[k] = x})

FailedPaths(r) == {r.failed[k][1] : k \in DOMAIN r.failed}

Wrote(log, p) == << "write", p >> \in Range(log)

NoFaults == [i \in Items |-> "none"]

\* The passes of the last call, run again from its pre-state with no fault.
FaultFreeRun ==
    update_passes(update_start(pre.disk, pre.claude_md, pre.manifest, NoFaults,
                               call.dry_run),
                  call.force, call.dry_run)

\* What a pass state says about the paths of S: the reports, the writes,
\* the contents and the manifest entries that name them, in order.
Reported(seq, S) == LET Named(x) == x \in S IN SelectSeq(seq, Named)

ReportedFailed(seq, S) == LET Named(x) == x[1] \in S IN SelectSeq(seq, Named)

Writes(log, S) == LET Named(x) == x[1] = "write" /\ x[2] \in S IN SelectSeq(log, Named)

View(st, S) ==
    [updated |-> Reported(st.result.updated, S), added |-> Reported(st.result.added, S),
     skipped |-> Reported(st.result.skipped, S),
     failed |-> ReportedFailed(st.result.failed, S),
     content |-> [q \in S |-> st.disk[q]],
     entries |-> {e \in st.manifest.files : e.path \in S},
     writes |-> Writes(st.io_log, S)]

Current ==
    [disk |-> disk, claude_md |-> claude_md, manifest |-> manifest, result |-> result,
     io_log |-> io_log, fault |-> fault]

\* ------------------------------------------------------------------ claims
\* C1: after update(dry_run=True) returns, for every force and backup, the
\* manifest (in memory and on disk, tool version included), every target
\* file and the host document are what they were before the call, and no
\* write was issued.
C1_DryRunPurity ==
    (Finished /\ call.dry_run) =>
        /\ disk = pre.disk
        /\ claude_md = pre.claude_md
        /\ manifest = pre.manifest
        /\ manifest_disk = pre.manifest_disk
        /\ backups = pre.backups
        /\ io_log = << >>

C1_Witness ==
    /\ outcome = "returned" /\ call.dry_run /\ call.force /\ call.backup
    /\ result.updated # << >>
    /\ result.added # << >>
    /\ manifest.version # __version__

\* C2 as stated: a managed user-editable file that exists is never written
\* by update(force=False), keeps its content and ends in `skipped`.
C2_AlwaysSkipped ==
    (Finished /\ ~call.force) =>
        \A p \in ManagedPaths :
            (ftype[p] = "user-editable" /\ pre.disk[p] # Absent) =>
                /\ ~Wrote(io_log, p)
                /\ disk[p] = pre.disk[p]
                /\ Count(result.skipped, p) = 1

\* C2, amended: a managed user-editable file that exists is never written
\* by update(force=False) and keeps its content, whatever the manifest says
\* of it; it ends in `skipped`, unless its shipped resource cannot be read,
\* and then it ends in `failed` and not in `skipped`.
C2_SkippedOrFailed ==
    (Finished /\ ~call.force) =>
        \A p \in ManagedPaths :
            (ftype[p] = "user-editable" /\ pre.disk[p] # Absent) =>
                /\ ~Wrote(io_log, p)
                /\ disk[p] = pre.disk[p]
                /\ Count(result.updated, p) = 0 /\ Count(result.added, p) = 0
                /\ IF fault[p] = "read"
                   THEN p \in FailedPaths(result) /\ Count(result.skipped, p) = 0
                   ELSE Count(result.skipped, p) = 1 /\ p \notin FailedPaths(result)

C2_Witness ==
    /\ outcome = "returned" /\ ~call.force /\ ~call.dry_run
    /\ \E p \in ManagedPaths :
           /\ ftype[p] = "user-editable" /\ pre.disk[p] = OldText
           /\ get_file_info(pre.manifest, p) = {}
           /\ p \in Range(result.skipped)
    /\ \E p \in ManagedPaths :
           /\ ftype[p] = "user-editable" /\ pre.disk[p] = OldText
           /\ get_file_info(pre.manifest, p) # {} /\ ~is_file_modified(pre.manifest, p)
           /\ p \in Range(result.skipped)

\* C3: with force=True no managed system or user-editable file whose
\* installed content differs from the shipped content ends in `skipped`; it
\* ends in `added`, `updated` or `failed`.
C3_ForceOverride ==
    (Finished /\ call.force) =>
        \A p \in ManagedPaths :
            (ftype[p] \in {"system", "user-editable"}
             /\ pre.disk[p] # Shipped(ResourceOf(p))) =>
                /\ Count(result.skipped, p) = 0
                /\ \/ p \in Range(result.added)
                   \/ p \in Range(result.updated)
                   \/ p \in FailedPaths(result)

C3_Witness ==
    /\ outcome = "returned" /\ call.force /\ ~call.dry_run
    /\ \E p \in ManagedPaths :
           /\ ftype[p] = "user-editable" /\ pre.disk[p] = OldText
           /\ is_file_modified(pre.manifest, p)
           /\ p \in Range(result.updated)
           /\ disk[p] = Shipped(ResourceOf(p))

\* A read fault of a managed file is always hit; a write fault, and either
\* fault of a command file, is hit when the run gets to write the file.
FaultHit(q, free) ==
    \/ q \in ManagedPaths /\ fault[q] = "read"
    \/ fault[q] \in {"read", "write"} /\ Wrote(free.io_log, q)

\* C4: when reading the shipped resource or writing the target fails for a
\* managed file or a command file, that path is in `failed` once, with an
\* error description, and in no other sequence; every file without a fault
\* is reported, written and recorded exactly as in the run without any
\* fault, in the same order; and update() returns unless the manifest cannot
\* be saved.
C4_FailureIsolation ==
    Finished =>
        \A free \in {FaultFreeRun} :
            /\ \A S \in {{q \in Paths : fault[q] = "none"}} :
                   View(Current, S) = View(free, S)
            /\ \A q \in Paths :
                   FaultHit(q, free) =>
                       /\ Cardinality({k \in DOMAIN result.failed :
                                         result.failed[k][1] = q
                                         /\ result.failed[k][2] # ""}) = 1
                       /\ Count(result.updated, q) = 0
                       /\ Count(result.added, q) = 0
                       /\ Count(result.skipped, q) = 0
            /\ fault["manifest"] # "save" => outcome = "returned"

C4_Witness ==
    /\ outcome = "returned" /\ ~call.dry_run
    /\ fault[files_to_process[1].target] = "read"
    /\ files_to_process[1].target \in FailedPaths(result)
    /\ \A k \in 2..Len(files_to_process) :
           files_to_process[k].target \in Range(result.updated) \cup Range(result.skipped)
    /\ Len(result.updated) > 0

\* C5 as stated: a second update(force=False, dry_run=False) right after a
\* first one reports nothing in `updated`.
C5_SecondRunUpdatesNothing ==
    (/\ outcome = "returned" /\ ~call.force /\ ~call.dry_run
     /\ prev.made /\ prev.outcome = "returned"
     /\ ~prev.call.force /\ ~prev.call.dry_run
     /\ fault = NoFaults) =>
        result.updated = << >>

\* C6 as stated: update(dry_run=True) and update(dry_run=False), started
\* from the same state with the same force, return the same `added`,
\* `updated`, `skipped` and `failed`.
C6_DryRunAgreesWithRealRun ==
    (/\ outcome = "returned" /\ ~call.dry_run
     /\ prev.made /\ prev.outcome = "returned" /\ prev.call.dry_run
     /\ prev.call.force = call.force
     /\ fault = NoFaults) =>
        /\ result.added = prev.result.added
        /\ result.updated = prev.result.updated
        /\ result.skipped = prev.result.skipped
        /\ result.failed = prev.result.failed

\* text[i..i+1] is the two-character delimiter d.
DelimiterAt(text, i, d) ==
    i >= 1 /\ i + 1 <= Len(text) /\ text[i] = d /\ text[i + 1] = d

\* An opening `{{` followed later by a closing `}}` with no other delimiter
\* inside the body between them.
HasPlaceholder(text) ==
    \E i \in 1..Len(text), j \in 1..Len(text) :
        /\ i + 2 <= j
        /\ DelimiterAt(text, i, "{") /\ DelimiterAt(text, j, "}")
        /\ \A k \in (i + 2)..(j - 2) :
               ~DelimiterAt(text, k, "{") /\ ~DelimiterAt(text, k, "}")

\* C7 as stated: for every template and every context, the rendered output
\* holds no `{{` followed later by `}}` with no other delimiter in between.
C7_NoLeftoverPlaceholder ==
    render_outcome = "returned" => ~HasPlaceholder(rendered)

\* C8 as stated: for every template and every flat context of strings,
\* booleans, integers and null, rendering raises no error when the template
\* can be read and written, and a reference to a key that is not in the
\* context renders as the empty string.
C8_RenderingNeverFails ==
    (render_outcome # "none" /\ render_call.fault = "none") =>
        /\ render_outcome = "returned"
        /\ (template = << "{", "{", "k", "}", "}" >> /\ ~HasKey(project_data, KeyK)) =>
               rendered = << >>

\* C9 as stated: after a real update returns, every managed or command path
\* in `added` or `updated` has exactly one manifest entry, with its file
\* type and the version of the shipped content (or the default version).
C9_WrittenPathsRecorded ==
    (outcome = "returned" /\ ~call.dry_run) =>
        \A p \in (Range(result.added) \cup Range(result.updated)) \cap Paths :
            /\ Cardinality(get_file_info(manifest, p)) = 1
            /\ \A e \in get_file_info(manifest, p) :
                   /\ e.file_type = IF p \in ManagedPaths THEN ftype[p] ELSE "command"
                   /\ e.version \in {extract_version_from_content(disk[p]), "1.0"}

\* C10 as stated: a command file is reported in `added` (and, in a real run,
\* written) if and only if it did not exist; one that exists is never
\* written; and the plan lists for addition exactly the missing ones.
C10_CommandsByExistenceOnly ==
    /\ Finished =>
           \A c \in CommandPaths :
               /\ (pre.disk[c] = Absent) <=>
                      (c \in Range(result.added) /\ (~call.dry_run => Wrote(io_log, c)))
               /\ pre.disk[c] # Absent => (~Wrote(io_log, c) /\ disk[c] = pre.disk[c])
    /\ updates.made =>
           \A c \in CommandPaths :
               (disk[c] = Absent) <=> (\E k \in DOMAIN updates.add : updates.add[k][1] = c)

\* C10, amended: a command file that exists is never written nor reported,
\* whatever its content, force and dry_run; a missing one is in the plan's
\* add list, is reported in `added` without being written by a dry run, and
\* in a real run is written and reported in `added` unless reading the
\* shipped command or writing the target fails, and then it is reported in
\* `failed`, not in `added`, and stays missing.
C10_CommandsByExistence ==
    /\ Finished =>
           \A c \in CommandPaths :
               /\ pre.disk[c] # Absent =>
                      /\ ~Wrote(io_log, c) /\ disk[c] = pre.disk[c]
                      /\ Count(result.added, c) = 0 /\ c \notin FailedPaths(result)
               /\ (pre.disk[c] = Absent /\ call.dry_run) =>
                      /\ Count(result.added, c) = 1
                      /\ ~Wrote(io_log, c) /\ disk[c] = Absent
               /\ (pre.disk[c] = Absent /\ ~call.dry_run /\ fault[c] = "none") =>
                      /\ Count(result.added, c) = 1
                      /\ Wrote(io_log, c) /\ disk[c] = Shipped(c)
               /\ (pre.disk[c] = Absent /\ ~call.dry_run /\ fault[c] # "none") =>
                      /\ Count(result.added, c) = 0 /\ c \in FailedPaths(result)
                      /\ ~Wrote(io_log, c) /\ disk[c] = Absent
    /\ updates.made =>
           \A c \in CommandPaths :
               (disk[c] = Absent) <=> (\E k \in DOMAIN updates.add : updates.add[k][1] = c)

C10_Witness ==
    /\ outcome = "returned" /\ call.force /\ ~call.dry_run
    /\ pre.disk[CommandPath(COMMAND_FILES[1])] = Absent
    /\ Wrote(io_log, CommandPath(COMMAND_FILES[1]))
    /\ CommandPath(COMMAND_FILES[1]) \in Range(result.added)
    /\ pre.disk[CommandPath(COMMAND_FILES[2])] = OldText
    /\ disk[CommandPath(COMMAND_FILES[2])] = OldText

\* C11 as stated: on every exit path of render_template_string (a returned
\* render, a failure while writing the template text to the temporary file,
\* a failure while reading or processing it) the temporary file no longer
\* exists when the call returns or raises.
C11_TempFileRemoved ==
    (render_outcome # "none" /\ render_call.entry = "render_template_string") =>
        ~temp_file

\* The paths a plan list names.
PlanPaths(list) == {list[k][1] : k \in DOMAIN list}

PlanCount(list, p) == Cardinality({k \in DOMAIN list : list[k][1] = p})

\* C12: for every file type and every manifest state, check_for_updates
\* places a managed file that is absent on disk in the plan's add list,
\* once, and in no other list; and after update(dry_run=False) returns with
\* that file not failed, the file exists with the shipped content and the
\* manifest holds exactly one entry for it.
C12_MissingManagedFile ==
    /\ updates.made =>
           \A p \in ManagedPaths :
               disk[p] = Absent =>
                   /\ PlanCount(updates.add, p) = 1
                   /\ p \notin PlanPaths(updates.update)
                   /\ p \notin PlanPaths(updates.skip)
    /\ (outcome = "returned" /\ ~call.dry_run) =>
           \A p \in ManagedPaths :
               (pre.disk[p] = Absent /\ p \notin FailedPaths(result)) =>
                   /\ disk[p] = Shipped(ResourceOf(p))
                   /\ Cardinality(get_file_info(manifest, p)) = 1

C12_Witness ==
    /\ outcome = "returned" /\ ~call.dry_run /\ ~call.force
    /\ \E p \in ManagedPaths :
           /\ pre.disk[p] = Absent /\ ftype[p] = "user-editable"
           /\ is_file_modified(pre.manifest, p)
           /\ disk[p] = Shipped(ResourceOf(p))
           /\ Cardinality(get_file_info(manifest, p)) = 1
           /\ p \notin FailedPaths(result)

\* The shipped block: the shipped include file from its start marker to the
\* end of its end marker.
ShippedBlock ==
    Slice(CLAUDE_INCLUDE, Find(CLAUDE_INCLUDE, QUAESTOR_CONFIG_START),
          Find(CLAUDE_INCLUDE, QUAESTOR_CONFIG_END) + Len(QUAESTOR_CONFIG_END))

\* The offsets after offset from at which the end marker starts.
EndMarkersFrom(text, from) ==
    {e \in from..(Len(text) - Len(QUAESTOR_CONFIG_END)) :
        Slice(text, e, e + Len(QUAESTOR_CONFIG_END)) = QUAESTOR_CONFIG_END}

\* What a sync may leave of a host document: the document itself when it
\* holds no start marker; otherwise the text before the start marker, the
\* shipped block, and the text after the end marker that closes the block
\* (a block no end marker closes is left alone or replaced to the end).
SyncedDocs(text) ==
    LET start == Find(text, QUAESTOR_CONFIG_START)
        ends == EndMarkersFrom(text, start + Len(QUAESTOR_CONFIG_START))
        end == CHOOSE e \in ends : \A x \in ends : e <= x
    IN  IF start = -1 THEN {text}
        ELSE IF ends = {} THEN {text, Slice(text, 0, start) \o ShippedBlock}
        ELSE {Slice(text, 0, start) \o ShippedBlock
              \o Slice(text, end + Len(QUAESTOR_CONFIG_END), Len(text))}

\* C13 as stated: a real sync leaves a host document without the block
\* untouched and otherwise replaces exactly the marker-delimited block by
\* the shipped block, the text before the start marker and after the end
\* marker unchanged, for every host document; and a second sync right after
\* reports no update of the block.
C13_IncludeBlockSync ==
    /\ (/\ outcome = "returned" /\ ~call.dry_run
        /\ fault["CLAUDE.md"] = "none" /\ pre.claude_md.exists) =>
           claude_md.text \in SyncedDocs(pre.claude_md.text)
    /\ (/\ outcome = "returned" /\ ~call.dry_run /\ fault["CLAUDE.md"] = "none"
        /\ prev.made /\ prev.outcome = "returned" /\ ~prev.call.dry_run) =>
           "CLAUDE.md (config section)" \notin Range(result.updated)

\* The managed files whose manifest entry could not be recorded in the last
\* call: the file was written and track_file failed.
RecordingFailed ==
    {p \in ManagedPaths : fault[p] = "track" /\ Wrote(io_log, p)}

\* C14 as stated: a failure of a manifest operation during update (recording
\* the entry of a written file, or the final save) propagates to the caller
\* and is never an entry of `failed`; and every entry of `failed` is a
\* resource-read or target-write failure of that file.
C14_ManifestFailuresFatal ==
    (Finished /\ ~call.dry_run) =>
        /\ (fault["manifest"] = "save" \/ RecordingFailed # {}) => outcome = "raised"
        /\ \A p \in RecordingFailed : p \notin FailedPaths(result)
        /\ \A q \in FailedPaths(result) : fault[q] \in {"read", "template", "write"}

\* The reasons a plan list gives for a path.
PlanReasons(list, p) == {list[k][3] : k \in {j \in DOMAIN list : list[j][1] = p}}

\* C15 as stated: check_for_updates places a user-editable managed file that
\* exists on disk in the plan's skip list in all three manifest states:
\* marked user-modified (reason "user modified"), untracked (reason
\* "existing file"), and tracked and unmodified.
C15_UserEditableRow ==
    updates.made =>
        \A p \in ManagedPaths :
            (ftype[p] = "user-editable" /\ disk[p] # Absent) =>
                /\ PlanCount(updates.skip, p) = 1
                /\ is_file_modified(manifest, p) =>
                       PlanReasons(updates.skip, p) = {"user modified"}
                /\ get_file_info(manifest, p) = {} =>
                       PlanReasons(updates.skip, p) = {"existing file"}

\* C16 as stated: check_for_updates places a system managed file that exists
\* on disk in the plan's update list in every manifest state, whatever the
\* version check finds: also when the shipped content has no version marker
\* and when the shipped resource cannot be read.
C16_SystemRow ==
    updates.made =>
        \A p \in ManagedPaths :
            (ftype[p] = "system" /\ disk[p] # Absent) =>
                /\ PlanCount(updates.update, p) = 1
                /\ p \notin PlanPaths(updates.add)
                /\ p \notin PlanPaths(updates.skip)

SaveEntry == << "save", "manifest" >>

\* C17: in a real update the log of file operations holds single writes
\* only, each of one target (a managed file, a command file or the host
\* document) and no target twice, and then, when update() returns, exactly
\* one save of the manifest, as its last entry; when the run ends before the
\* save is done, files may have been written and the persisted manifest is
\* what it was before the run.
C17_WriteSaveOrdering ==
    (Finished /\ ~call.dry_run) =>
        /\ \A k \in DOMAIN io_log :
               \/ io_log[k] = SaveEntry /\ k = Len(io_log)
               \/ /\ io_log[k][1] = "write"
                  /\ io_log[k][2] \in Paths \cup {"CLAUDE.md"}
                  /\ Count(io_log, io_log[k]) = 1
        /\ outcome = "returned" =>
               /\ Count(io_log, SaveEntry) = 1
               /\ io_log[Len(io_log)] = SaveEntry
               /\ manifest_disk = manifest
        /\ outcome = "raised" =>
               /\ Count(io_log, SaveEntry) = 0
               /\ manifest_disk = pre.manifest_disk

C17_Witness ==
    /\ Finished /\ ~call.dry_run /\ outcome = "raised"
    /\ manifest_disk = pre.manifest_disk /\ manifest # pre.manifest
    /\ \E p \in ManagedPaths : Wrote(io_log, p) /\ disk[p] # pre.disk[p]
    /\ Wrote(io_log, "CLAUDE.md")
    /\ SaveEntry \notin Range(io_log)

\* C18 as stated: rendering the performance-target expression gives the
\* text form of performance_target_ms whenever the key is in the context (a
\* non-zero integer, 0, a string such as "150"), and the literal 200 only
\* when the key is absent.
C18_PerformanceTarget ==
    (template = PerformanceTargetTemplate /\ render_outcome = "returned") =>
        rendered = IF HasKey(project_data, KeyPerformanceTargetMs)
                   THEN PyStr(Get(project_data, KeyPerformanceTargetMs, NoneVal))
                   ELSE << "2", "0", "0" >>

\* The truthiness rule the claims state: an absent key is false, a string is
\* true only when its lowercase form is true, 1, yes or on, and any other
\* value is coerced to a boolean.
TruthRule(data, key) ==
    /\ HasKey(data, key)
    /\ LET v == Get(data, key, NoneVal)
       IN  IF v.t = "str"
           THEN Lower(v.s) \in {<< "t", "r", "u", "e" >>, << "1" >>, << "y", "e", "s" >>,
                                << "o", "n" >>}
           ELSE PyBool(v)

ValueText(data, key) == PyStr(Get(data, key, StrVal(<< >>)))

\* C19 as stated: the string-literal ternary, the value-or-default ternary
\* and the two coverage_threshold expressions all decide their condition by
\* the one truthiness rule; a string-valued coverage_threshold too.
C19_SingleTruthRule ==
    render_outcome = "returned" =>
        /\ template = LiteralTernaryTemplate =>
               rendered = IF TruthRule(project_data, KeyK) THEN << "a" >> ELSE << "b" >>
        /\ template = ValueTernaryTemplate =>
               rendered = IF TruthRule(project_data, KeyK)
                          THEN ValueText(project_data, KeyK) ELSE << "d" >>
        /\ template = CoverageTemplate =>
               rendered = << "C", "o", "v", "e", "r", "a", "g", "e", ":", " " >>
                          \o (IF TruthRule(project_data, KeyCoverageThreshold)
                              THEN << ">", "=" >>
                                   \o ValueText(project_data, KeyCoverageThreshold)
                                   \o << "%" >>
                              ELSE << "o", "p", "t", "i", "o", "n", "a", "l" >>)
        /\ template = ThresholdDefaultTemplate =>
               rendered = IF TruthRule(project_data, KeyCoverageThreshold)
                          THEN ValueText(project_data, KeyCoverageThreshold) \o << "%" >>
                          ELSE << "8", "0", "%" >>

\* What the threshold-or-optional expression is to give when truthy decides
\* the condition.
CoverageLine(truthy) ==
    << "C", "o", "v", "e", "r", "a", "g", "e", ":", " " >>
    \o (IF truthy
        THEN << ">", "=" >> \o ValueText(project_data, KeyCoverageThreshold) \o << "%" >>
        ELSE << "o", "p", "t", "i", "o", "n", "a", "l" >>)

\* C20 as stated: rendering the threshold-or-optional expression gives
\* `>=<threshold>%` when coverage_threshold is present and truthy and
\* `optional` when it is absent or falsy, the surrounding text unchanged;
\* truthy is read either as the truthiness rule or as boolean coercion.
C20_ThresholdOrOptional ==
    (template = CoverageTemplate /\ render_outcome = "returned") =>
        rendered \in {CoverageLine(TruthRule(project_data, KeyCoverageThreshold)),
                      CoverageLine(PyBool(Get(project_data, KeyCoverageThreshold,
                                              NoneVal)))}

\* The occurrences of sub in s from offset pos on, counted left to right
\* without overlap.
RECURSIVE Occurrences(_, _, _)
Occurrences(s, sub, pos) ==
    IF pos + Len(sub) > Len(s) THEN 0
    ELSE IF SubSeq(s, pos + 1, pos + Len(sub)) = sub
    THEN 1 + Occurrences(s, sub, pos + Len(sub))
    ELSE Occurrences(s, sub, pos + 1)

IssuesOfKind(kind) == {k \in DOMAIN validation.errors : validation.errors[k].kind = kind}

\* The names the second check of the validator objects to in the template.
ObjectionableNames ==
    LET ms == FindAllGreedy(invalid_variable_pattern, template, 0)
    IN  {InvalidVar(template, ms[k]) : k \in {j \in DOMAIN ms :
                                               ~HasKeyword(InvalidVar(template, ms[j]))}}

\* C21: for every readable template, validate_template reports the
\* unmatched-braces issue, once and with both counts, exactly when the
\* number of `{{` differs from the number of `}}`; is_valid is true exactly
\* when the issue list is empty; the name check runs whether or not the
\* brace check found something; and `{{ name }} says {{ hi` is invalid with
\* the single issue "unmatched braces: 2 opening, 1 closing".
C21_Validator ==
    (validation.made /\ render_call.fault = "none") =>
        \E open \in {Occurrences(template, << "{", "{" >>, 0)},
           close \in {Occurrences(template, << "}", "}" >>, 0)} :
            /\ (IssuesOfKind("unmatched braces") # {}) <=> (open # close)
            /\ Cardinality(IssuesOfKind("unmatched braces")) <= 1
            /\ \A k \in IssuesOfKind("unmatched braces") :
                   validation.errors[k] = UnmatchedBraces(open, close)
            /\ validation.is_valid <=> (validation.errors = << >>)
            /\ {validation.errors[k].var : k \in IssuesOfKind("invalid variable name")}
                   = ObjectionableNames
            /\ template = UnmatchedExampleTemplate =>
                   /\ ~validation.is_valid
                   /\ validation.errors = << UnmatchedBraces(2, 1) >>

C21_Witness ==
    /\ validation.made /\ render_call.fault = "none"
    /\ template = UnmatchedExampleTemplate
    /\ ~validation.is_valid
    /\ validation.errors = << UnmatchedBraces(2, 1) >>

\* How often the result of the last call names path p, in any sequence.
Reports(p) ==
    Count(result.added, p) + Count(result.updated, p) + Count(result.skipped, p)
    + Cardinality({k \in DOMAIN result.failed : result.failed[k][1] = p})

\* C22: after any call to update(), whatever force, dry_run, backup and the
\* starting state, each of the four managed .quaestor files is named exactly
\* once in the result: in one of `added`, `updated`, `skipped`, `failed`,
\* once there, and in no other sequence.
C22_ReportedExactlyOnce ==
    Finished => \A p \in ManagedPaths : Reports(p) = 1

C22_Witness ==
    /\ outcome = "returned"
    /\ \A p \in ManagedPaths : Reports(p) = 1
    /\ \E p \in ManagedPaths : p \in FailedPaths(result) /\ Wrote(io_log, p)
    /\ \E p \in ManagedPaths : Count(result.updated, p) = 1
    /\ \E p \in ManagedPaths : Count(result.skipped, p) = 1

\* The plan check_for_updates gives on the state the last call started from.
PlanBefore == check_for_updates(pre.disk, pre.manifest)

\* C23 as stated: the managed and command files update(force=False,
\* dry_run=False) writes are exactly those in the add and update lists
\* check_for_updates returns on the same state, and every managed file the
\* update reports in `skipped` is in the plan's skip list, for every file
\* type and also when a shipped resource cannot be read.
C23_PlanMatchesExecution ==
    (outcome = "returned" /\ ~call.force /\ ~call.dry_run) =>
        \E plan \in {PlanBefore} :
            /\ {p \in Paths : Wrote(io_log, p)}
                   = PlanPaths(plan.add) \cup PlanPaths(plan.update)
            /\ \A p \in ManagedPaths :
                   Count(result.skipped, p) > 0 => p \in PlanPaths(plan.skip)

====
